---- MODULE Spec2Model ----
\* A model of the flowpath packet-processing core: the buffer Pool
\* (fp-lite/buffer.hpp), the runtime system calls fp_goto_table / fp_gather
\* and fp_apply / fp_write / fp_clear (system.cpp), and the Action variant
\* (instruction.hpp).
EXTENDS Integers, Sequences, FiniteSets, TLC

\* ---------------------------------------------------------------------
\* Bounds of the model.

\* Pool(int size, Dataplane*): the number of buffers of the pool under test.
PoolSize == 3
\* The number of worker threads that call alloc() and dealloc().
NumWorkers == 2
\* How many buffer references may be outstanding beyond the pool's capacity
\* before the workers stop calling alloc().
MaxOver == 1

\* The number of bytes of a received packet.
PacketLen == 2
\* The field ids an application binds: 1..NumFields.
NumFields == 2
\* The largest number of field ids a goto_table call lists.
MaxArgs == 2
\* The largest key width of a table.
MaxKeyWidth == 2
\* The longest action list a packet accumulates.
MaxWrites == 2
\* The largest number of flows installed in the table.
MaxFlows == 1
MaxTables == 2
NumNames == 2
MaxObjs == 3
MaxEnq == 2
MaxUnder == 1
MaxDrops == 1
NumPorts == 2
NumSocks == 3

\* fp::key_size, the size of fp_gather's stack buffer `buf`.
KeyBufSize == 128

Workers == 1..NumWorkers
Ids == 0..(PoolSize - 1)
\* No thread holds the mutex.
NoOwner == 0

VARIABLES
  \* Pool
  heap_,      \* Pool::heap_: the priority_queue's vector in heap order, and its underflow
  mutex_,     \* Pool::mutex_: the worker that holds it, or NoOwner
  pc,         \* each worker's position inside alloc() / dealloc()
  id,         \* each worker's local `id` (alloc) or argument `id` (dealloc)
  held,       \* held[w][i]: how many references to buffer i worker w holds
  emptyAlloc, \* whether the alloc() the worker is in met an empty heap
  \* Packet processing
  phase,      \* "init": no packet yet; "proc": being processed; "sent",
              \* "output", "flood": egressed; "dropped": on the drop port
  cxt,        \* the fp::Context of the packet
  tbl,        \* the fp::Table the application created
  call,       \* the frame of fp_goto_table and of the fp_gather it calls
  egress_port, \* the port the packet was transmitted on at egress, or NoPort
  written,    \* the actions fp_write was called with since the last fp_clear
  cleared,    \* whether an fp_clear discarded written actions of this packet
  bind_req,   \* the last fp_bind_field call: its arguments and the cursor then
  tables,     \* dp->tables(): the ids of the tables registered in the data plane
  htbl,       \* the fp::Table* the application holds, and the table behind it
  created,    \* the last fp_create_table call and how it ended
  lookup,     \* the last fp_goto_table on htbl: what find resolved
  dataplane_table,  \* name -> Dataplane*, as a set of <<name, object>> entries
  module_table,     \* path -> Application*, as a set of <<path, object>> entries
  next_obj,   \* the next object `new` hands out
  sys_last,   \* the last registry call: arguments, outcome, table before it
  queue_,     \* std::queue<T> queue_ of a Locked_queue / Locking_queue
  qmutex,     \* the queue's mutex_: exclusive owner and shared holders
  qpc,        \* each thread's position in enqueue / dequeue
  qv,         \* each thread's v (enqueue argument, dequeue result)
  qcur,       \* each thread's copy of the queue it read at the start of pop()
  delivered,  \* how many successful dequeues returned each element
  qub,        \* front() or pop() ran on an empty std::queue
  qabort,     \* assert(queue_.size()) failed
  nextval,    \* the next element a producer enqueues
  packets,    \* the packets counters of the table's flows and of its miss flow
  ports,      \* each Port_tcp: state_.link_down, sock_, and the last call on it
  socks,      \* the connected sockets the caller holds, not attached to a port
  handed,     \* the Socket the last detach() returned
  sq          \* one queue object in single-threaded use, with what went in and out

poolVars == <<heap_, mutex_, pc, id, held, emptyAlloc>>
egressVars == <<egress_port, written, cleared>>
bindVars == <<bind_req>>
tableVars == <<tables, htbl, created, lookup>>
sysVars == <<dataplane_table, module_table, next_obj, sys_last>>
queueVars == <<queue_, qmutex, qpc, qv, qcur, delivered, qub, qabort, nextval>>
dispVars == <<packets>>
portVars == <<ports, socks, handed>>
sqVars == <<sq>>
restVars == <<bindVars, tableVars, sysVars, queueVars, dispVars, portVars, sqVars>>
procVars == <<phase, cxt, tbl, call, egress_port, written, cleared, restVars>>
vars == <<heap_, mutex_, pc, id, held, emptyAlloc, phase, cxt, tbl, call,
          egress_port, written, cleared, restVars>>

\* ---------------------------------------------------------------------
\* std::priority_queue<int, std::vector<int>, std::greater<int>>

\* The flipped comparison a default (max-heap) priority_queue would use.
CompLess(a, b) == a < b

\* Heap_type's comparison, std::greater<int>: a min-heap.
Comp(a, b) == a > b

\* std::push_heap: move the hole up while its parent compares greater.
RECURSIVE SiftUp(_, _, _)
SiftUp(s, hole, v) ==
  IF hole > 1 /\ Comp(s[hole \div 2], v)
  THEN SiftUp([s EXCEPT ![hole] = s[hole \div 2]], hole \div 2, v)
  ELSE [s EXCEPT ![hole] = v]

\* std::__adjust_heap: move the hole down to a leaf along the preferred
\* children, then push the value up from there.
RECURSIVE SiftDown(_, _, _)
SiftDown(s, hole, v) ==
  LET l == 2 * hole
      r == 2 * hole + 1
  IN IF r <= Len(s)
     THEN LET c == IF Comp(s[r], s[l]) THEN l ELSE r
          IN SiftDown([s EXCEPT ![hole] = s[c]], c, v)
     ELSE IF l <= Len(s)
          THEN SiftDown([s EXCEPT ![hole] = s[l]], l, v)
          ELSE SiftUp(s, hole, v)

\* A push that loses the element.
HeapPushLost(h, x) == h

\* A priority_queue is its vector c, heap-ordered, and `under`: by how many
\* elements pop_back on an empty vector has moved its end in front of its
\* begin. size() is Len(c) - under; c is empty while under > 0.
EmptyHeap == [c |-> <<>>, under |-> 0]

\* priority_queue::push: c.push_back(x); push_heap(c.begin(), c.end(), comp).
\* While the end is in front of the begin, push_back writes in front of the
\* storage and only moves the end back: the element is lost.
HeapPush(h, x) ==
  IF h.under > 0 THEN [h EXCEPT !.under = @ - 1]
  ELSE [h EXCEPT !.c = SiftUp(Append(h.c, x), Len(h.c) + 1, x)]

\* priority_queue::top: c.front(). Only defined on a non-empty heap.
HeapTop(h) == h.c[1]

\* priority_queue::pop: pop_heap(c.begin(), c.end(), comp); c.pop_back().
\* On an empty vector pop_heap does nothing and pop_back moves the end one
\* element further in front of the begin.
HeapPop(h) ==
  IF Len(h.c) = 0 THEN [h EXCEPT !.under = @ + 1]
  ELSE IF Len(h.c) = 1 THEN [h EXCEPT !.c = <<>>]
  ELSE [h EXCEPT !.c = SiftDown(SubSeq(h.c, 1, Len(h.c) - 1), 1, h.c[Len(h.c)])]

\* Pool::Pool(int size, Dataplane*): heap_.push(i) for i = 0 .. size-1.
RECURSIVE PoolCtor(_)
PoolCtor(size) ==
  IF size = 0 THEN EmptyHeap ELSE HeapPush(PoolCtor(size - 1), size - 1)

\* ---------------------------------------------------------------------
\* Derived views of the pool state.

RECURSIVE SumOver(_, _)
SumOver(f, S) ==
  IF S = {} THEN 0
  ELSE LET x == CHOOSE y \in S : TRUE IN f[x] + SumOver(f, S \ {x})

\* How many times index i is in the free heap.
FreeCount(i) == Cardinality({p \in 1..Len(heap_.c) : heap_.c[p] = i})
\* How many references to buffer i the workers hold.
HeldCount(i) == SumOver([w \in Workers |-> held[w][i]], Workers)
\* The number of buffers in flight.
TotalHeld == SumOver([i \in Ids |-> HeldCount(i)], Ids)
\* The free set.
FreeSet == {heap_.c[p] : p \in 1..Len(heap_.c)}
SetMin(S) == CHOOSE m \in S : \A x \in S : m <= x

\* ---------------------------------------------------------------------
\* Pool::alloc and Pool::dealloc, one action per statement.

PoolInit ==
  /\ heap_ = PoolCtor(PoolSize)
  /\ mutex_ = NoOwner
  /\ pc = [w \in Workers |-> "idle"]
  /\ id = [w \in Workers |-> 0]
  /\ held = [w \in Workers |-> [i \in Ids |-> 0]]
  /\ emptyAlloc = [w \in Workers |-> FALSE]

\* alloc(): mutex_.lock(). The commented-out wait for a non-empty heap is
\* not executed: the call proceeds whatever the heap holds.
AllocLock(w) ==
  /\ pc[w] = "idle"
  /\ TotalHeld < PoolSize + MaxOver
  /\ mutex_ = NoOwner
  /\ mutex_' = w
  /\ pc' = [pc EXCEPT ![w] = "a_locked"]
  /\ UNCHANGED <<heap_, id, held, emptyAlloc>>
  /\ UNCHANGED procVars

\* alloc(): int id(heap_.top()). On an empty heap front() reads the
\* vector's stale storage: undefined, any index the pool ever stored.
AllocTop(w) ==
  /\ pc[w] = "a_locked"
  /\ IF heap_.c = <<>>
     THEN /\ \E i \in Ids : id' = [id EXCEPT ![w] = i]
          /\ emptyAlloc' = [emptyAlloc EXCEPT ![w] = TRUE]
     ELSE /\ id' = [id EXCEPT ![w] = HeapTop(heap_)]
          /\ UNCHANGED emptyAlloc
  /\ pc' = [pc EXCEPT ![w] = "a_top"]
  /\ UNCHANGED <<heap_, mutex_, held>>
  /\ UNCHANGED procVars

\* alloc(): heap_.pop(). From here the caller owns buffer `id`.
AllocPop(w) ==
  /\ pc[w] = "a_top"
  /\ heap_' = HeapPop(heap_)
  /\ held' = [held EXCEPT ![w][id[w]] = @ + 1]
  /\ pc' = [pc EXCEPT ![w] = "a_popped"]
  /\ UNCHANGED <<mutex_, id, emptyAlloc>>
  /\ UNCHANGED procVars

\* alloc(): mutex_.unlock(); return data_[id]. The call's locals end here.
AllocUnlock(w) ==
  /\ pc[w] = "a_popped"
  /\ mutex_' = NoOwner
  /\ pc' = [pc EXCEPT ![w] = "idle"]
  /\ id' = [id EXCEPT ![w] = 0]
  /\ emptyAlloc' = [emptyAlloc EXCEPT ![w] = FALSE]
  /\ UNCHANGED <<heap_, held>>
  /\ UNCHANGED procVars

\* dealloc(i): mutex_.lock(). A worker returns a buffer it holds.
DeallocLock(w, i) ==
  /\ pc[w] = "idle"
  /\ held[w][i] > 0
  /\ mutex_ = NoOwner
  /\ mutex_' = w
  /\ id' = [id EXCEPT ![w] = i]
  /\ pc' = [pc EXCEPT ![w] = "d_locked"]
  /\ UNCHANGED <<heap_, held, emptyAlloc>>
  /\ UNCHANGED procVars

\* dealloc(i): heap_.push(id). The caller's reference is given up.
DeallocPush(w) ==
  /\ pc[w] = "d_locked"
  /\ heap_' = HeapPush(heap_, id[w])
  /\ held' = [held EXCEPT ![w][id[w]] = @ - 1]
  /\ pc' = [pc EXCEPT ![w] = "d_pushed"]
  /\ UNCHANGED <<mutex_, id, emptyAlloc>>
  /\ UNCHANGED procVars

\* dealloc(i): mutex_.unlock(). The call's locals end here.
DeallocUnlock(w) ==
  /\ pc[w] = "d_pushed"
  /\ mutex_' = NoOwner
  /\ pc' = [pc EXCEPT ![w] = "idle"]
  /\ id' = [id EXCEPT ![w] = 0]
  /\ UNCHANGED <<heap_, held, emptyAlloc>>
  /\ UNCHANGED procVars

PoolNext ==
  \/ \E w \in Workers : AllocLock(w)
  \/ \E w \in Workers : AllocTop(w)
  \/ \E w \in Workers : AllocPop(w)
  \/ \E w \in Workers : AllocUnlock(w)
  \/ \E w \in Workers, i \in Ids : DeallocLock(w, i)
  \/ \E w \in Workers : DeallocPush(w)
  \/ \E w \in Workers : DeallocUnlock(w)


\* ---------------------------------------------------------------------
\* Context, Table and the dispatch fp_goto_table / fp_gather.

Bytes == {0, 1}
FieldIds == 1..NumFields
\* An int that names no field: what va_arg yields past the end of the list
\* when it is not by chance a field id.
GarbageField == NumFields + 1
\* A byte of `buf` that was never written.
Uninit == 0 - 1
\* No output port chosen, nothing transmitted.
NoPort == 0
NoBindReq ==
  [set |-> FALSE, f |-> 0, c |-> 0, off |-> 0, len |-> 0, replaced |-> FALSE,
   view |-> [start |-> 0, bytes |-> <<>>]]
Unbound == [bound |-> FALSE, offset |-> 0, length |-> 0]

\* Context::Context: no packet, offset 0, no bindings.
CxtInit ==
  [data |-> <<>>, metadata |-> [p \in 1..PacketLen |-> 0], offset |-> 0,
   fields |-> [f \in FieldIds |-> Unbound],
   output_port |-> NoPort, queue |-> 0, group |-> 0, dropped |-> FALSE,
   action_list |-> <<>>]

NoTable == [made |-> FALSE, key_size |-> 0, flows |-> {}]

CallInit ==
  [pc |-> "idle", key_width |-> 0, n |-> 0, args |-> <<>>, va |-> <<>>,
   i |-> 0, j |-> 0, buf |-> <<>>, overread |-> FALSE, smashed |-> FALSE,
   key |-> <<>>,
   flow |-> "none", finds |-> 0, instrs |-> 0]

\* Context::get_field_binding(f): the binding of f; an id that was never
\* bound has none (UnboundField).
get_field_binding(c, f) == IF f \in FieldIds THEN c.fields[f] ELSE Unbound

\* Context::get_field(offset) and the `length` bytes read from there.
get_field(c, offset, length) == SubSeq(c.data, offset + 1, offset + length)

\* A bind_field that records whatever it is given.
bind_field_unchecked(c, f, abs_off, len) ==
  [c EXCEPT !.fields[f] = [bound |-> TRUE, offset |-> abs_off, length |-> len]]

\* Context::bind_field(id, abs_off, len): record the binding when it lies
\* inside the packet.
bind_field(c, f, abs_off, len) ==
  IF abs_off + len <= Len(c.data)
  THEN [c EXCEPT !.fields[f] = [bound |-> TRUE, offset |-> abs_off, length |-> len]]
  ELSE c

\* Context::get_field(offset) as the pointer it is: a view into the packet
\* memory that starts at byte `offset` and runs to the packet's end.
get_field_view(c, offset) ==
  [start |-> offset, bytes |-> SubSeq(c.data, offset + 1, Len(c.data))]

\* An fp_bind_field that takes off for an absolute offset.
fp_bind_field_abs(c, f, off, len) ==
  [cxt |-> bind_field(c, f, off, len), ret |-> get_field_view(c, off)]

\* fp_bind_field(cxt, id, off, len): abs_off = cxt->offset() + off;
\* cxt->bind_field(id, abs_off, len); return cxt->get_field(abs_off).
fp_bind_field(c, f, off, len) ==
  [cxt |-> bind_field(c, f, c.offset + off, len),
   ret |-> get_field_view(c, c.offset + off)]

\* Table::find(key): the flow installed for key, else the miss flow.
find(t, key) == IF key \in t.flows THEN "flow" ELSE "miss"

\* The keys a table can hold, and the packets counters before any lookup.
FlowKeys == UNION {[1..kw -> Bytes] : kw \in 0..MaxKeyWidth}
NoPackets == [flows |-> [k \in FlowKeys |-> 0], miss |-> 0]

\* Table::find(key) increments the packets counter of the flow it returns.
find_count(pk, t, key) ==
  IF key \in t.flows THEN [pk EXCEPT !.flows[key] = @ + 1]
  ELSE [pk EXCEPT !.miss = @ + 1]

\* std::copy(p, p + length, &buf[j]) as far as Key(buf, key_width) reads it.
CopyIntoBuf(buf, j, bytes) ==
  [p \in 1..Len(buf) |->
     IF p > j /\ p <= j + Len(bytes) THEN bytes[p - j] ELSE buf[p]]

\* fp::Key(buf, key_width): the first key_width bytes of buf; a byte that
\* was never written may read as anything.
KeysOf(buf) ==
  {k \in [1..Len(buf) -> Bytes] :
     \A p \in 1..Len(buf) : buf[p] # Uninit => k[p] = buf[p]}

\* A port driver fills the context with a packet.
PacketRecv(d) ==
  /\ phase \in {"init", "sent", "output", "flood"}
  /\ phase' = "proc"
  /\ cxt' = [CxtInit EXCEPT !.data = d]
  /\ egress_port' = NoPort
  /\ written' = <<>>
  /\ cleared' = FALSE
  /\ bind_req' = NoBindReq
  /\ UNCHANGED <<poolVars, portVars, sqVars, tableVars, sysVars, queueVars, dispVars, tbl, call>>

\* fp_create_table(dp, id, size, key_width, EXACT).
CreateTable(ks) ==
  /\ ~tbl.made
  /\ tbl' = [made |-> TRUE, key_size |-> ks, flows |-> {}]
  /\ UNCHANGED <<poolVars, restVars, egressVars, phase, cxt, call>>

\* fp_add_flow(tbl, key, fn).
AddFlow(k) ==
  /\ tbl.made /\ call.pc = "idle"
  /\ Cardinality(tbl.flows) < MaxFlows
  /\ k \notin tbl.flows
  /\ tbl' = [tbl EXCEPT !.flows = @ \cup {k}]
  /\ UNCHANGED <<poolVars, restVars, egressVars, phase, cxt, call>>

\* fp_advance_header(cxt, n): cxt->advance(n); the cursor moves, unchecked.
advance(c, n) == [c EXCEPT !.offset = @ + n]

Advance(n) ==
  /\ phase = "proc" /\ call.pc = "idle"
  /\ cxt.offset + n <= PacketLen
  /\ cxt' = advance(cxt, n)
  /\ UNCHANGED <<poolVars, restVars, egressVars, phase, tbl, call>>

\* The application binds a field of the current header.
BindField(f, off, len) ==
  /\ phase = "proc" /\ call.pc = "idle"
  /\ ~cxt.fields[f].bound
  /\ cxt' = fp_bind_field(cxt, f, off, len).cxt
  /\ UNCHANGED <<poolVars, restVars, egressVars, phase, tbl, call>>

\* fp_bind_field on a field bound or not, with the call's arguments, the
\* cursor at the call and the view the call returned kept in bind_req.
BindFieldAt(f, off, len) ==
  /\ phase = "proc" /\ call.pc = "idle"
  /\ cxt' = fp_bind_field(cxt, f, off, len).cxt
  /\ bind_req' = [set |-> TRUE, f |-> f, c |-> cxt.offset, off |-> off,
                  len |-> len,
                  replaced |-> cxt.fields[f].bound /\ cxt'.fields[f] # cxt.fields[f],
                  view |-> fp_bind_field(cxt, f, off, len).ret]
  /\ UNCHANGED <<poolVars, portVars, sqVars, tableVars, sysVars, queueVars, dispVars, egressVars,
                 phase, tbl, call>>

\* fp_goto_table(cxt, tbl, n, ...): va_start, then the call of
\* fp_gather(cxt, tbl->key_size(), n, args) up to its loop.
GotoCall(args) ==
  /\ phase = "proc" /\ tbl.made /\ call.pc = "idle"
  /\ call' = [CallInit EXCEPT !.pc = "gather",
                              !.key_width = tbl.key_size,
                              !.n = Len(args), !.args = args, !.va = args,
                              !.buf = [p \in 1..tbl.key_size |-> Uninit]]
  /\ UNCHANGED <<poolVars, restVars, egressVars, phase, cxt, tbl>>

\* One iteration of `while (i < n)`: va_arg, get_field_binding, get_field,
\* std::copy, j += b.length. Nothing in the body changes i. A copy that
\* runs past buf[fp::key_size] is undefined: the call is killed (pc
\* "overrun"), or the bytes land on the frame's other variables, i and j
\* among them (smashed). From then on the loop goes on with whatever i and
\* j the copies left: a copy lands at some jj of the key's bytes, or
\* (jj = Len(buf)) again outside them.
GatherIter(f) ==
  /\ call.pc = "gather"
  /\ call.i < call.n \/ call.smashed
  /\ IF call.va # <<>> THEN f = Head(call.va) ELSE TRUE
  /\ LET b == get_field_binding(cxt, f)
         over == call.overread \/ call.va = <<>>
         rest == IF call.va # <<>> THEN Tail(call.va) ELSE <<>>
     IN IF ~b.bound
        THEN call' = [call EXCEPT !.pc = "UnboundField",
                                  !.va = rest, !.overread = over]
        ELSE IF call.smashed
        THEN \/ call' = [call EXCEPT !.pc = "overrun",
                                     !.va = rest, !.overread = over]
             \/ \E jj \in 0..Len(call.buf) :
                  call' = [call EXCEPT
                             !.va = rest, !.overread = over,
                             !.buf = CopyIntoBuf(@, jj,
                                       get_field(cxt, b.offset, b.length))]
        ELSE IF call.j + b.length > KeyBufSize
        THEN \/ call' = [call EXCEPT !.pc = "overrun",
                                     !.va = rest, !.overread = over]
             \/ call' = [call EXCEPT !.smashed = TRUE,
                                     !.va = rest, !.overread = over]
        ELSE call' = [call EXCEPT
                        !.va = rest, !.overread = over,
                        !.buf = CopyIntoBuf(@, call.j,
                                            get_field(cxt, b.offset, b.length)),
                        !.j = @ + b.length]
  /\ UNCHANGED <<poolVars, restVars, egressVars, phase, cxt, tbl>>

\* The loop ends, with i as it was set or as an overrun left it, and
\* fp_gather returns fp::Key(buf, key_width).
GatherReturn(k) ==
  /\ call.pc = "gather"
  /\ ~(call.i < call.n) \/ call.smashed
  /\ k \in KeysOf(call.buf)
  /\ call' = [call EXCEPT !.pc = "find", !.key = k]
  /\ UNCHANGED <<poolVars, restVars, egressVars, phase, cxt, tbl>>

\* fp_goto_table: flow = tbl->find(key).
GotoFind ==
  /\ call.pc = "find"
  /\ call' = [call EXCEPT !.pc = "instr", !.flow = find(tbl, call.key),
                          !.finds = @ + 1]
  /\ packets' = find_count(packets, tbl, call.key)
  /\ UNCHANGED <<poolVars, portVars, sqVars, bindVars, tableVars, sysVars, queueVars, egressVars,
                 phase, cxt, tbl>>

\* fp_goto_table: flow.instr_(tbl, cxt).
GotoInstr ==
  /\ call.pc = "instr"
  /\ call' = [call EXCEPT !.pc = "done", !.instrs = @ + 1]
  /\ UNCHANGED <<poolVars, restVars, egressVars, phase, cxt, tbl>>

Packets == [1..PacketLen -> Bytes]

\* ---------------------------------------------------------------------
\* Actions (instruction.hpp) and the dispatch fp_apply / fp_write / fp_clear.

Packet_memory == 0
Metadata_memory == 1

\* struct Field { address, offset, length }.
Field(address, offset, length) ==
  [address |-> address, offset |-> offset, length |-> length]
NoField == Field(Packet_memory, 0, 0)

\* struct Action { union Value value; uint8_t type; }, one constructor per
\* member of the union.
Get_field_action(f) == [type |-> "get", field |-> f, value |-> <<>>, arg |-> 0]
Set_field_action(f, v) == [type |-> "set", field |-> f, value |-> v, arg |-> 0]
Copy_field_action(f, off) == [type |-> "copy", field |-> f, value |-> <<>>, arg |-> off]
Output_action(port) == [type |-> "output", field |-> NoField, value |-> <<>>, arg |-> port]
Queue_action(q) == [type |-> "queue", field |-> NoField, value |-> <<>>, arg |-> q]
Group_action(g) == [type |-> "group", field |-> NoField, value |-> <<>>, arg |-> g]
Drop_action == [type |-> "drop", field |-> NoField, value |-> <<>>, arg |-> 0]

\* `bytes` written into `mem` from the 0-based offset `off` on.
WriteBytes(mem, off, bytes) ==
  [p \in 1..Len(mem) |->
     IF p > off /\ p <= off + Len(bytes) THEN bytes[p - off] ELSE mem[p]]

\* Where a field of packet memory starts: its offset is relative to the
\* current header.
FieldStart(c, f) ==
  IF f.address = Packet_memory THEN c.offset + f.offset ELSE f.offset

\* Context::apply_action(a): execute a against the context now.
apply_action(c, a) ==
  CASE a.type = "get" -> c
    [] a.type = "set" ->
         IF a.field.address = Packet_memory
         THEN [c EXCEPT !.data = WriteBytes(@, FieldStart(c, a.field), a.value)]
         ELSE [c EXCEPT !.metadata = WriteBytes(@, FieldStart(c, a.field), a.value)]
    [] a.type = "copy" ->
         IF a.field.address = Packet_memory
         THEN [c EXCEPT !.metadata =
                 WriteBytes(@, a.arg,
                   SubSeq(c.data, FieldStart(c, a.field) + 1,
                          FieldStart(c, a.field) + a.field.length))]
         ELSE [c EXCEPT !.data =
                 WriteBytes(@, a.arg,
                   SubSeq(c.metadata, FieldStart(c, a.field) + 1,
                          FieldStart(c, a.field) + a.field.length))]
    [] a.type = "output" -> [c EXCEPT !.output_port = a.arg]
    [] a.type = "queue" -> [c EXCEPT !.queue = a.arg]
    [] a.type = "group" -> [c EXCEPT !.group = a.arg]
    [] a.type = "drop" -> [c EXCEPT !.dropped = TRUE]

\* Context::write_action(a): append a to the action list.
write_action(c, a) == [c EXCEPT !.action_list = Append(@, a)]

\* Context::clear_actions(): empty the action list.
clear_actions(c) == [c EXCEPT !.action_list = <<>>]

\* commit (implicit on egress): apply the action list, front first.
RECURSIVE commit(_)
commit(c) ==
  IF c.action_list = <<>> THEN c
  ELSE commit([apply_action(c, Head(c.action_list))
                 EXCEPT !.action_list = Tail(c.action_list)])

\* fp_apply(cxt, a): cxt->apply_action(a).
fp_apply(c, a) == apply_action(c, a)

\* A dispatch that executes the action at once instead of deferring it.
fp_write_applies(c, a) == apply_action(c, a)

\* fp_write(cxt, a): cxt->write_action(a).
fp_write(c, a) == write_action(c, a)

\* A dispatch that leaves the action list as it is.
fp_clear_keeps(c) == c

\* fp_clear(cxt): cxt->clear_actions().
fp_clear(c) == clear_actions(c)

\* The actions the application of the model issues: X is packet byte 0,
\* Y is packet byte 1.
AppActions ==
  { Set_field_action(Field(Packet_memory, 0, 1), <<1>>),
    Set_field_action(Field(Packet_memory, 0, 1), <<0>>),
    Set_field_action(Field(Packet_memory, 1, 1), <<1>>),
    Copy_field_action(Field(Packet_memory, 0, 1), 0),
    Output_action(7),
    Queue_action(1),
    Group_action(1),
    Drop_action }

Apply(a) ==
  /\ phase = "proc"
  /\ cxt' = fp_apply(cxt, a)
  /\ UNCHANGED <<poolVars, restVars, egressVars, phase, tbl, call>>

Write(a) ==
  /\ phase = "proc"
  /\ Len(cxt.action_list) < MaxWrites /\ Len(written) < MaxWrites
  /\ cxt' = fp_write(cxt, a)
  /\ written' = Append(written, a)
  /\ UNCHANGED <<poolVars, restVars, phase, tbl, call, egress_port, cleared>>

Clear ==
  /\ phase = "proc"
  /\ cxt' = fp_clear(cxt)
  /\ written' = <<>>
  /\ cleared' = (cleared \/ written # <<>>)
  /\ UNCHANGED <<poolVars, restVars, phase, tbl, call, egress_port>>

\* Egress: the action list is committed and the packet is transmitted on its
\* output port unless the context is dropped.
Egress ==
  /\ phase = "proc"
  /\ cxt' = commit(cxt)
  /\ egress_port' = IF cxt'.dropped THEN NoPort ELSE cxt'.output_port
  /\ phase' = "sent"
  /\ UNCHANGED <<poolVars, restVars, tbl, call, written, cleared>>

\* Port::send(cxt) of port p: the action list is applied and the packet is
\* transmitted on p unless the context is dropped.
send(p, c) ==
  [cxt |-> commit(c), port |-> IF commit(c).dropped THEN NoPort ELSE p]

\* The ports the application of the model names in fp_output_port.
AppPorts == {5}
\* port_table.flood_port(): the well-known flood port.
flood_port == 255

\* fp_output_port(cxt, p): p->send(cxt).
FpOutputPort(p) ==
  /\ phase = "proc"
  /\ cxt' = send(p, cxt).cxt
  /\ egress_port' = send(p, cxt).port
  /\ phase' = "output"
  /\ UNCHANGED <<poolVars, restVars, tbl, call, written, cleared>>

\* fp_flood(cxt): flood = port_table.flood_port(); flood->send(cxt).
FpFlood ==
  /\ phase = "proc"
  /\ cxt' = send(flood_port, cxt).cxt
  /\ egress_port' = send(flood_port, cxt).port
  /\ phase' = "flood"
  /\ UNCHANGED <<poolVars, restVars, tbl, call, written, cleared>>

CxtNext ==
  \/ \E d \in Packets : PacketRecv(d)
  \/ \E a \in AppActions : Apply(a)
  \/ \E a \in AppActions : Write(a)
  \/ Clear
  \/ Egress
  \/ \E p \in AppPorts : FpOutputPort(p)
  \/ FpFlood

ArgLists == UNION {[1..m -> FieldIds] : m \in 0..MaxArgs}

GotoNext ==
  \/ \E d \in Packets : PacketRecv(d)
  \/ \E ks \in 0..MaxKeyWidth : CreateTable(ks)
  \/ \E k \in [1..tbl.key_size -> Bytes] : AddFlow(k)
  \/ \E f \in FieldIds, off \in 0..PacketLen, len \in 1..PacketLen :
       BindField(f, off, len)
  \/ \E args \in ArgLists : GotoCall(args)
  \/ \E f \in FieldIds \cup {GarbageField} : GatherIter(f)
  \/ \E k \in [1..call.key_width -> Bytes] : GatherReturn(k)
  \/ GotoFind
  \/ GotoInstr

\* ---------------------------------------------------------------------
\* Table configuration: fp_create_table, fp_add_flow, fp_add_miss,
\* fp_del_flow, and the lookup fp_goto_table makes on the handle it is given.

TableTypes == {"EXACT", "PREFIX", "WILDCARD"}
OtherType == "OTHER"
KeysOfWidth(kw) == [1..kw -> Bytes]

\* fp::Table* tbl = nullptr.
nullptr == [valid |-> FALSE, key_size |-> 0, flows |-> {}, miss |-> "none"]

\* new fp::Hash_table(id, size, key_width): no flows, the Drop-all miss.
Hash_table(key_width) ==
  [valid |-> TRUE, key_size |-> key_width, flows |-> {}, miss |-> "drop"]

NoCreate == [called |-> FALSE, type |-> "none", threw |-> FALSE,
             valid |-> FALSE, before |-> <<>>]
NoLookup == [called |-> FALSE, key |-> <<>>, tbl |-> nullptr,
             result |-> "none", handler |-> "none"]

TableInit ==
  /\ tables = <<>>
  /\ htbl = nullptr
  /\ created = NoCreate
  /\ lookup = NoLookup

\* fp_create_table(dp, id, size, key_width, type): the switch on type.
fp_create_table(ts, tid, key_width, type) ==
  CASE type = "EXACT" ->
         [threw |-> FALSE, tbl |-> Hash_table(key_width), tables |-> Append(ts, tid)]
    [] type \in {"PREFIX", "WILDCARD"} ->
         [threw |-> FALSE, tbl |-> nullptr, tables |-> ts]
    [] OTHER ->
         [threw |-> TRUE, tbl |-> nullptr, tables |-> ts]

\* tbl = fp_create_table(dp, id, size, key_width, type) in the application;
\* a throw leaves the application's handle as it was.
FpCreateTable(key_width, type) ==
  /\ Len(tables) < MaxTables
  /\ LET r == fp_create_table(tables, Len(tables) + 1, key_width, type)
     IN /\ tables' = r.tables
        /\ htbl' = IF r.threw THEN htbl ELSE r.tbl
        /\ created' = [called |-> TRUE, type |-> type, threw |-> r.threw,
                       valid |-> r.tbl.valid, before |-> tables]
  /\ lookup' = NoLookup
  /\ UNCHANGED <<poolVars, portVars, sqVars, bindVars, sysVars, queueVars, dispVars, egressVars, phase, cxt,
                 tbl, call>>

\* fp_add_flow(tbl, key, fn): tbl->insert(k, flow).
FpAddFlow(k) ==
  /\ htbl.valid
  /\ k \in KeysOfWidth(htbl.key_size)
  /\ Cardinality(htbl.flows \cup {k}) <= MaxFlows
  /\ htbl' = [htbl EXCEPT !.flows = @ \cup {k}]
  /\ UNCHANGED <<poolVars, portVars, sqVars, bindVars, sysVars, queueVars, dispVars, egressVars, phase, cxt,
                 tbl, call,
                 tables, created, lookup>>

\* fp_add_miss(tbl, fn): tbl->insert_miss(flow).
FpAddMiss ==
  /\ htbl.valid
  /\ htbl' = [htbl EXCEPT !.miss = "app"]
  /\ UNCHANGED <<poolVars, portVars, sqVars, bindVars, sysVars, queueVars, dispVars, egressVars, phase, cxt,
                 tbl, call,
                 tables, created, lookup>>

\* fp_del_flow(tbl, key): tbl->erase(k).
FpDelFlow(k) ==
  /\ htbl.valid
  /\ k \in KeysOfWidth(htbl.key_size)
  /\ htbl' = [htbl EXCEPT !.flows = @ \ {k}]
  /\ UNCHANGED <<poolVars, portVars, sqVars, bindVars, sysVars, queueVars, dispVars, egressVars, phase, cxt,
                 tbl, call,
                 tables, created, lookup>>

\* fp_goto_table(cxt, tbl, 0) with the handle the application got from
\* fp_create_table: tbl->key_size(), tbl->find(key), flow.instr_(tbl, cxt).
\* Through a null handle the first member call faults.
FpGotoTable(k) ==
  /\ created.called /\ ~created.threw
  /\ IF ~htbl.valid
     THEN /\ k = <<>>
          /\ lookup' = [called |-> TRUE, key |-> k, tbl |-> htbl,
                        result |-> "nullderef", handler |-> "none"]
     ELSE /\ k \in KeysOfWidth(htbl.key_size)
          /\ lookup' = [called |-> TRUE, key |-> k, tbl |-> htbl,
                        result |-> find(htbl, k),
                        handler |-> IF find(htbl, k) = "flow" THEN "app"
                                    ELSE htbl.miss]
  /\ UNCHANGED <<poolVars, portVars, sqVars, bindVars, sysVars, queueVars, dispVars, egressVars, phase, cxt,
                 tbl, call,
                 tables, htbl, created>>

AllKeys == UNION {KeysOfWidth(kw) : kw \in 1..MaxKeyWidth} \cup {<<>>}

TableNext ==
  \/ \E kw \in 1..MaxKeyWidth, type \in TableTypes \cup {OtherType} :
       FpCreateTable(kw, type)
  \/ \E k \in AllKeys : FpAddFlow(k)
  \/ FpAddMiss
  \/ \E k \in AllKeys : FpDelFlow(k)
  \/ \E k \in AllKeys : FpGotoTable(k)

\* ---------------------------------------------------------------------
\* The system registries: dataplane_table and module_table, both
\* std::unordered_map keyed by a string.

Names == 1..NumNames
NoObj == 0

\* unordered_map::find(k) != end().
map_find(m, k) == \E e \in m : e[1] = k
\* unordered_map::insert({k, v}): no effect when k has an entry.
map_insert(m, k, v) == IF map_find(m, k) THEN m ELSE m \cup {<<k, v>>}
\* unordered_map::at(k).
map_at(m, k) == (CHOOSE e \in m : e[1] = k)[2]
\* unordered_map::erase(it) for the iterator find(k) returned.
map_erase(m, k) == {e \in m : e[1] # k}

NoCall == [op |-> "none", arg |-> 0, threw |-> FALSE, ub |-> FALSE,
           ret |-> NoObj, before |-> {}]

SysInit ==
  /\ dataplane_table = {}
  /\ module_table = {}
  /\ next_obj = 1
  /\ sys_last = NoCall

\* A create_dataplane without the check for an existing name.
create_dataplane_nocheck(t, name, obj) ==
  [threw |-> FALSE, table |-> t \cup {<<name, obj>>}, ret |-> obj]

\* create_dataplane(name, app).
create_dataplane(t, name, obj) ==
  IF map_find(t, name)
  THEN [threw |-> TRUE, table |-> t, ret |-> NoObj]
  ELSE [threw |-> FALSE, table |-> map_insert(t, name, obj),
        ret |-> map_at(map_insert(t, name, obj), name)]

\* delete_dataplane(name).
delete_dataplane(t, name) ==
  IF map_find(t, name)
  THEN [threw |-> FALSE, table |-> map_erase(t, name)]
  ELSE [threw |-> TRUE, table |-> t]

\* load_application(path).
load_application(t, path, obj) ==
  IF map_find(t, path)
  THEN [threw |-> TRUE, table |-> t]
  ELSE [threw |-> FALSE, table |-> map_insert(t, path, obj)]

CreateDataplane(name) ==
  /\ next_obj <= MaxObjs
  /\ LET r == create_dataplane(dataplane_table, name, next_obj)
     IN /\ dataplane_table' = r.table
        /\ next_obj' = IF r.threw THEN next_obj ELSE next_obj + 1
        /\ sys_last' = [op |-> "create_dataplane", arg |-> name,
                        threw |-> r.threw, ub |-> FALSE, ret |-> r.ret,
                        before |-> dataplane_table]
  /\ UNCHANGED <<poolVars, portVars, sqVars, bindVars, tableVars, queueVars, dispVars, egressVars, phase,
                 cxt, tbl, call, module_table>>

DeleteDataplane(name) ==
  /\ LET r == delete_dataplane(dataplane_table, name)
     IN /\ dataplane_table' = r.table
        /\ sys_last' = [op |-> "delete_dataplane", arg |-> name,
                        threw |-> r.threw, ub |-> FALSE, ret |-> NoObj,
                        before |-> dataplane_table]
  /\ UNCHANGED <<poolVars, portVars, sqVars, bindVars, tableVars, queueVars, dispVars, egressVars, phase,
                 cxt, tbl, call, module_table, next_obj>>

LoadApplication(path) ==
  /\ next_obj <= MaxObjs
  /\ LET r == load_application(module_table, path, next_obj)
     IN /\ module_table' = r.table
        /\ next_obj' = IF r.threw THEN next_obj ELSE next_obj + 1
        /\ sys_last' = [op |-> "load_application", arg |-> path,
                        threw |-> r.threw, ub |-> FALSE, ret |-> NoObj,
                        before |-> module_table]
  /\ UNCHANGED <<poolVars, portVars, sqVars, bindVars, tableVars, queueVars, dispVars, egressVars, phase,
                 cxt, tbl, call, dataplane_table>>

\* unload_application(path): app = module_table.find(path); it throws when
\* app != end(), and otherwise calls module_table.erase(app) with app == end(),
\* which is undefined: the call may leave any part of the table behind.
UnloadApplication(path) ==
  /\ IF map_find(module_table, path)
     THEN /\ module_table' = module_table
          /\ sys_last' = [op |-> "unload_application", arg |-> path,
                          threw |-> TRUE, ub |-> FALSE, ret |-> NoObj,
                          before |-> module_table]
     ELSE /\ module_table' \in SUBSET module_table
          /\ sys_last' = [op |-> "unload_application", arg |-> path,
                          threw |-> FALSE, ub |-> TRUE, ret |-> NoObj,
                          before |-> module_table]
  /\ UNCHANGED <<poolVars, portVars, sqVars, bindVars, tableVars, queueVars, dispVars, egressVars, phase,
                 cxt, tbl, call, dataplane_table, next_obj>>

SysNext ==
  \/ \E name \in Names : CreateDataplane(name)
  \/ \E name \in Names : DeleteDataplane(name)
  \/ \E path \in Names : LoadApplication(path)
  \/ \E path \in Names : UnloadApplication(path)

\* ---------------------------------------------------------------------
\* Locked_queue (std::shared_timed_mutex) and Locking_queue (Mutex), one
\* action per statement of enqueue and dequeue.

Elems == 1..MaxEnq
\* What front() yields on an empty std::queue: not an enqueued element.
Garbage == 0
QValues == Elems \cup {Garbage}
NoThread == 0

\* A std::queue<T>: the elements it holds in c, and in under by how many
\* pops of an empty queue its start has run past its finish.
EmptyQueue == [c |-> <<>>, under |-> 0]

QueueInit ==
  /\ queue_ = EmptyQueue
  /\ qmutex = [writer |-> NoThread, readers |-> {}]
  /\ qpc = [t \in Workers |-> "idle"]
  /\ qv = [t \in Workers |-> Garbage]
  /\ qcur = [t \in Workers |-> EmptyQueue]
  /\ delivered = [e \in QValues |-> 0]
  /\ qub = FALSE
  /\ qabort = FALSE
  /\ nextval = 1

QUnchanged == UNCHANGED <<poolVars, portVars, sqVars, bindVars, tableVars, sysVars, dispVars, egressVars,
                          phase, cxt, tbl, call>>

\* mutex_.lock(): exclusive, waits for the writer and for every shared holder.
lock(m, t) == [m EXCEPT !.writer = t]
can_lock(m) == m.writer = NoThread /\ m.readers = {}
unlock(m) == [m EXCEPT !.writer = NoThread]
\* mutex_.lock_shared(): waits for the writer only.
lock_shared(m, t) == [m EXCEPT !.readers = @ \cup {t}]
can_lock_shared(m) == m.writer = NoThread
unlock_shared(m, t) == [m EXCEPT !.readers = @ \ {t}]

\* queue_.size(): finish - start; it is not 0 (it is -1 as an int) after a
\* pop of an empty queue.
size(q) == Len(q.c) - q.under
\* queue_.front(); on a queue that holds no element it is undefined and reads
\* whatever the storage at start holds.
front(q, g) == IF q.c # <<>> THEN Head(q.c) ELSE g
\* queue_.push(v): v is stored at finish and finish moves on; while start is
\* past finish the stored value is not an element of the queue.
push(q, v) ==
  IF q.under > 0 THEN [q EXCEPT !.under = @ - 1]
  ELSE [q EXCEPT !.c = Append(@, v)]
\* queue_.pop(): start moves on; on an empty queue it is undefined and start
\* runs past finish.
pop(q) ==
  IF q.c # <<>> THEN [q EXCEPT !.c = Tail(@)]
  ELSE [q EXCEPT !.under = @ + 1]

\* enqueue(v): mutex_.lock().
EnqLock(t) ==
  /\ ~qabort /\ qpc[t] = "idle" /\ nextval <= MaxEnq
  /\ can_lock(qmutex)
  /\ qmutex' = lock(qmutex, t)
  /\ qv' = [qv EXCEPT ![t] = nextval]
  /\ nextval' = nextval + 1
  /\ qpc' = [qpc EXCEPT ![t] = "e_locked"]
  /\ UNCHANGED <<queue_, qcur, delivered, qub, qabort>> /\ QUnchanged

\* queue_.push(v).
EnqPush(t) ==
  /\ qpc[t] = "e_locked"
  /\ queue_' = push(queue_, qv[t])
  /\ qpc' = [qpc EXCEPT ![t] = "e_pushed"]
  /\ UNCHANGED <<qmutex, qv, qcur, delivered, qub, qabort, nextval>> /\ QUnchanged

\* mutex_.unlock().
EnqUnlock(t) ==
  /\ qpc[t] = "e_pushed"
  /\ qmutex' = unlock(qmutex)
  /\ qpc' = [qpc EXCEPT ![t] = "idle"]
  /\ qv' = [qv EXCEPT ![t] = Garbage]
  /\ UNCHANGED <<queue_, qcur, delivered, qub, qabort, nextval>> /\ QUnchanged

\* Locked_queue::dequeue(v): ret = false; mutex_.lock_shared().
LockedDeqLock(t) ==
  /\ ~qabort /\ qpc[t] = "idle"
  /\ queue_.under < MaxUnder
  /\ can_lock_shared(qmutex)
  /\ qmutex' = lock_shared(qmutex, t)
  /\ qpc' = [qpc EXCEPT ![t] = "d_locked"]
  /\ UNCHANGED <<queue_, qv, qcur, delivered, qub, qabort, nextval>> /\ QUnchanged

\* if (queue_.size()).
LockedDeqSize(t) ==
  /\ qpc[t] = "d_locked"
  /\ qpc' = [qpc EXCEPT ![t] = IF size(queue_) # 0 THEN "d_front" ELSE "d_false"]
  /\ UNCHANGED <<queue_, qmutex, qv, qcur, delivered, qub, qabort, nextval>>
  /\ QUnchanged

\* v = queue_.front().
DeqFront(t, g) ==
  /\ qpc[t] = "d_front"
  /\ qv' = [qv EXCEPT ![t] = front(queue_, g)]
  /\ qub' = (qub \/ queue_.c = <<>>)
  /\ qpc' = [qpc EXCEPT ![t] = "d_pop"]
  /\ UNCHANGED <<queue_, qmutex, qcur, delivered, qabort, nextval>> /\ QUnchanged

\* queue_.pop() is not atomic: it reads the queue's start ...
DeqPopLoad(t) ==
  /\ qpc[t] = "d_pop"
  /\ qcur' = [qcur EXCEPT ![t] = queue_]
  /\ qpc' = [qpc EXCEPT ![t] = "d_store"]
  /\ UNCHANGED <<queue_, qmutex, qv, delivered, qub, qabort, nextval>>
  /\ QUnchanged

\* ... and stores the start it read, moved on by one; a pop another thread
\* made in between is overwritten. ret = true.
DeqPop(t) ==
  /\ qpc[t] = "d_store"
  /\ queue_' = pop(qcur[t])
  /\ qub' = (qub \/ qcur[t].c = <<>>)
  /\ qcur' = [qcur EXCEPT ![t] = EmptyQueue]
  /\ qpc' = [qpc EXCEPT ![t] = "d_true"]
  /\ UNCHANGED <<qmutex, qv, delivered, qabort, nextval>> /\ QUnchanged

\* mutex_.unlock_shared(); return ret.
LockedDeqUnlock(t) ==
  /\ qpc[t] \in {"d_true", "d_false"}
  /\ qmutex' = unlock_shared(qmutex, t)
  /\ delivered' = IF qpc[t] = "d_true"
                  THEN [delivered EXCEPT ![qv[t]] = @ + 1] ELSE delivered
  /\ qv' = [qv EXCEPT ![t] = Garbage]
  /\ qpc' = [qpc EXCEPT ![t] = "idle"]
  /\ UNCHANGED <<queue_, qcur, qub, qabort, nextval>> /\ QUnchanged

LockedQNext ==
  \E t \in Workers :
    \/ EnqLock(t) \/ EnqPush(t) \/ EnqUnlock(t)
    \/ LockedDeqLock(t) \/ LockedDeqSize(t)
    \/ \E g \in QValues : DeqFront(t, g)
    \/ DeqPopLoad(t) \/ DeqPop(t) \/ LockedDeqUnlock(t)

\* Locking_queue::dequeue(): assert(queue_.size()), before the lock is taken.
LockingDeqAssert(t) ==
  /\ ~qabort /\ qpc[t] = "idle"
  /\ queue_.under < MaxUnder
  /\ IF size(queue_) # 0
     THEN qpc' = [qpc EXCEPT ![t] = "k_checked"] /\ qabort' = qabort
     ELSE qpc' = qpc /\ qabort' = TRUE
  /\ UNCHANGED <<queue_, qmutex, qv, qcur, delivered, qub, nextval>> /\ QUnchanged

\* mutex_.lock().
LockingDeqLock(t) ==
  /\ qpc[t] = "k_checked"
  /\ can_lock(qmutex)
  /\ qmutex' = lock(qmutex, t)
  /\ qpc' = [qpc EXCEPT ![t] = "d_front"]
  /\ UNCHANGED <<queue_, qv, qcur, delivered, qub, qabort, nextval>> /\ QUnchanged

\* mutex_.unlock(); return ret.
LockingDeqUnlock(t) ==
  /\ qpc[t] = "d_true"
  /\ qmutex' = unlock(qmutex)
  /\ delivered' = [delivered EXCEPT ![qv[t]] = @ + 1]
  /\ qv' = [qv EXCEPT ![t] = Garbage]
  /\ qpc' = [qpc EXCEPT ![t] = "idle"]
  /\ UNCHANGED <<queue_, qcur, qub, qabort, nextval>> /\ QUnchanged

LockingQNext ==
  \E t \in Workers :
    \/ EnqLock(t) \/ EnqPush(t) \/ EnqUnlock(t)
    \/ LockingDeqAssert(t) \/ LockingDeqLock(t)
    \/ \E g \in QValues : DeqFront(t, g)
    \/ DeqPopLoad(t) \/ DeqPop(t) \/ LockingDeqUnlock(t)

\* ---------------------------------------------------------------------
\* One port driver: it allocates a buffer from the Pool for each packet,
\* hands the context to the application, and the drop port returns the
\* buffer of a dropped context to the Pool.

Driver == 1

\* The driver's Pool::alloc() for the next packet.
DriverAllocLock ==
  /\ phase \in {"init", "sent"}
  /\ TotalHeld = 0
  /\ packets.miss < MaxDrops
  /\ AllocLock(Driver)

\* The packet is received into the allocated buffer.
DriverRecv(d) ==
  /\ TotalHeld = 1 /\ pc[Driver] = "idle"
  /\ PacketRecv(d)

\* Port::send of the drop port: the context is discarded.
drop_send(c) == [c EXCEPT !.dropped = TRUE]

\* fp_drop(cxt): drop->send(cxt). It is called by the application itself, by
\* the Drop-all miss flow that fp_goto_table invoked, or for the per-packet
\* error a dispatch raised.
FpDrop ==
  /\ phase = "proc"
  /\ \/ call.pc = "idle"
     \/ call.pc = "done" /\ call.flow = "miss"
     \/ call.pc = "UnboundField"
  /\ cxt' = drop_send(cxt)
  /\ phase' = "dropped"
  /\ call' = CallInit
  /\ UNCHANGED <<poolVars, restVars, egressVars, tbl>>

\* The drop port returns the buffer: Pool::dealloc(id).
DropDeallocLock ==
  /\ phase = "dropped"
  /\ \E i \in Ids : DeallocLock(Driver, i)

\* drop->send(cxt) returns once the buffer is back in the Pool.
DropReturn ==
  /\ phase = "dropped"
  /\ TotalHeld = 0 /\ pc[Driver] = "idle"
  /\ phase' = "sent"
  /\ UNCHANGED <<poolVars, restVars, egressVars, cxt, tbl, call>>

DropNext ==
  \/ DriverAllocLock
  \/ AllocTop(Driver) \/ AllocPop(Driver) \/ AllocUnlock(Driver)
  \/ \E d \in {[p \in 1..PacketLen |-> 0]} : DriverRecv(d)
  \/ CreateTable(1)
  \/ BindField(1, 0, 1)
  \/ \E args \in {<<>>, <<1>>} : GotoCall(args)
  \/ \E f \in {1, GarbageField} : GatherIter(f)
  \/ \E k \in [1..call.key_width -> Bytes] : GatherReturn(k)
  \/ GotoFind
  \/ GotoInstr
  \/ FpDrop
  \/ DropDeallocLock
  \/ DeallocPush(Driver) \/ DeallocUnlock(Driver)
  \/ DropReturn

\* ---------------------------------------------------------------------
\* Port_tcp: the link state and the socket of a TCP port.

PortIds == 1..NumPorts
\* The file descriptors of the connected sockets the caller starts with.
SockFds == 1..NumSocks
\* The fd of a socket that is not connected: ff::uninitialized, or a socket
\* that has been moved from.
NoFd == 0

\* Port_tcp::Port_tcp(id): sock_(ff::uninitialized), state_.link_down = true.
Port_tcp == [link_down |-> TRUE, sock_ |-> NoFd, last |-> "ctor"]

\* std::move of a Socket: the target takes the fd, the source keeps none.
move(fd) == [to |-> fd, from |-> NoFd]

\* A detach that leaves the link state as it was.
detach_keeps_link(port) ==
  [port |-> [port EXCEPT !.sock_ = move(port.sock_).from, !.last = "detach"],
   ret |-> move(port.sock_).to]

\* Port_tcp::attach(Socket&& s): sock_ = std::move(s); link_down = false.
attach(port, s) ==
  [port EXCEPT !.sock_ = move(s).to, !.link_down = FALSE, !.last = "attach"]

\* Port_tcp::detach(): link_down = true; return std::move(sock_).
detach(port) ==
  [port |-> [port EXCEPT !.link_down = TRUE, !.sock_ = move(port.sock_).from,
                         !.last = "detach"],
   ret |-> move(port.sock_).to]

PortInit ==
  /\ ports = [p \in PortIds |-> Port_tcp]
  /\ socks = SockFds
  /\ handed = NoFd

PortUnchanged == UNCHANGED <<poolVars, sqVars, bindVars, tableVars, sysVars, queueVars,
                             dispVars, egressVars, phase, cxt, tbl, call>>

\* The caller attaches one of its connected sockets to port p; the socket a
\* port already held is overwritten.
Attach(p, s) ==
  /\ s \in socks
  /\ ports' = [ports EXCEPT ![p] = attach(ports[p], s)]
  /\ socks' = socks \ {s}
  /\ handed' = handed
  /\ PortUnchanged

\* The caller detaches port p and keeps the socket it is handed.
Detach(p) ==
  /\ ports' = [ports EXCEPT ![p] = detach(ports[p]).port]
  /\ handed' = detach(ports[p]).ret
  /\ socks' = IF detach(ports[p]).ret # NoFd
              THEN socks \cup {detach(ports[p]).ret} ELSE socks
  /\ PortUnchanged

PortNext ==
  \/ \E p \in PortIds, s \in SockFds : Attach(p, s)
  \/ \E p \in PortIds : Detach(p)

\* ---------------------------------------------------------------------
\* Queue, Locked_queue and Locking_queue in single-threaded use: whole calls
\* of enqueue, dequeue, size and empty on one queue object.

QueueKinds == {"Queue", "Locked_queue", "Locking_queue"}

NoDequeue == [called |-> FALSE, ret |-> FALSE, v_before |-> Garbage,
              v_after |-> Garbage, q_before |-> EmptyQueue,
              q_after |-> EmptyQueue]

\* No queue object constructed yet.
NoQueue == [kind |-> "none", queue_ |-> EmptyQueue, in |-> <<>>, out |-> <<>>,
            ub |-> FALSE, aborted |-> FALSE, last |-> NoDequeue]

\* Queue::empty() and Locking_queue::empty(): queue_.empty(), start = finish.
Queue_empty(q) == q = EmptyQueue
Locking_queue_empty(q) == q = EmptyQueue
\* Locked_queue::empty(): `return size();`, the int converted to bool.
Locked_queue_empty(q) == size(q) # 0

\* empty() of the queue object o.
empty(o) ==
  CASE o.kind = "Queue" -> Queue_empty(o.queue_)
    [] o.kind = "Locked_queue" -> Locked_queue_empty(o.queue_)
    [] o.kind = "Locking_queue" -> Locking_queue_empty(o.queue_)

\* enqueue(v) of the three classes: queue_.push(v).
enqueue(q, v) == push(q, v)

\* Queue::dequeue(): temp = queue_.front(); queue_.pop(); return temp.
Queue_dequeue(q, g) ==
  [ret |-> front(q, g), queue_ |-> pop(q), ub |-> q.c = <<>>]

\* A Locked_queue::dequeue that hands out the newest element.
Locked_dequeue_newest(q, v) ==
  IF size(q) # 0
  THEN [ret |-> TRUE, v |-> q.c[Len(q.c)],
        queue_ |-> [q EXCEPT !.c = SubSeq(@, 1, Len(@) - 1)]]
  ELSE [ret |-> FALSE, v |-> v, queue_ |-> q]

\* Locked_queue::dequeue(v): if (queue_.size()) { v = front; pop; ret = true }.
Locked_dequeue(q, v) ==
  IF size(q) # 0
  THEN [ret |-> TRUE, v |-> front(q, Garbage), queue_ |-> pop(q)]
  ELSE [ret |-> FALSE, v |-> v, queue_ |-> q]

\* Locking_queue::dequeue(): assert(queue_.size()); front; pop; return ret.
Locking_dequeue(q) ==
  IF size(q) # 0
  THEN [aborted |-> FALSE, ret |-> front(q, Garbage), queue_ |-> pop(q)]
  ELSE [aborted |-> TRUE, ret |-> Garbage, queue_ |-> q]

SqUnchanged == UNCHANGED <<poolVars, portVars, bindVars, tableVars, sysVars,
                           queueVars, dispVars, egressVars, phase, cxt, tbl,
                           call>>

\* Queue(), Locked_queue(), Locking_queue(): an empty queue_.
Construct(kind) ==
  /\ sq.kind = "none"
  /\ sq' = [NoQueue EXCEPT !.kind = kind]
  /\ SqUnchanged

Enqueue(v) ==
  /\ sq.kind \in QueueKinds /\ ~sq.aborted
  /\ Len(sq.in) < MaxEnq
  /\ sq' = [sq EXCEPT !.queue_ = enqueue(@, v), !.in = Append(@, v)]
  /\ SqUnchanged

QueueDequeue(g) ==
  /\ sq.kind = "Queue"
  /\ sq.queue_.under < MaxUnder
  /\ LET r == Queue_dequeue(sq.queue_, g)
     IN sq' = [sq EXCEPT !.queue_ = r.queue_, !.ub = @ \/ r.ub,
                         !.out = IF r.ub THEN @ ELSE Append(@, r.ret)]
  /\ SqUnchanged

LockedDequeue(v) ==
  /\ sq.kind = "Locked_queue"
  /\ LET r == Locked_dequeue(sq.queue_, v)
     IN sq' = [sq EXCEPT !.queue_ = r.queue_,
                         !.out = IF r.ret THEN Append(@, r.v) ELSE @,
                         !.last = [called |-> TRUE, ret |-> r.ret,
                                   v_before |-> v, v_after |-> r.v,
                                   q_before |-> sq.queue_,
                                   q_after |-> r.queue_]]
  /\ SqUnchanged

LockingDequeue ==
  /\ sq.kind = "Locking_queue" /\ ~sq.aborted
  /\ LET r == Locking_dequeue(sq.queue_)
     IN sq' = [sq EXCEPT !.queue_ = r.queue_, !.aborted = r.aborted,
                         !.out = IF r.aborted THEN @ ELSE Append(@, r.ret)]
  /\ SqUnchanged

SqNext ==
  \/ \E kind \in QueueKinds : Construct(kind)
  \/ \E v \in Elems : Enqueue(v)
  \/ \E g \in QValues : QueueDequeue(g)
  \/ \E v \in QValues : LockedDequeue(v)
  \/ LockingDequeue

Init ==
  /\ PoolInit
  /\ phase = "init"
  /\ cxt = CxtInit
  /\ tbl = NoTable
  /\ call = CallInit
  /\ egress_port = NoPort
  /\ written = <<>>
  /\ cleared = FALSE
  /\ bind_req = NoBindReq
  /\ TableInit
  /\ SysInit
  /\ QueueInit
  /\ packets = NoPackets
  /\ PortInit
  /\ sq = NoQueue

PoolSpec == Init /\ [][PoolNext]_vars

GotoSpec == Init /\ [][GotoNext]_vars

CxtSpec == Init /\ [][CxtNext]_vars

\* Header and field binding on one packet.
BindNext ==
  \/ \E d \in {[p \in 1..PacketLen |-> p % 2]} : PacketRecv(d)
  \/ \E n \in 1..PacketLen : Advance(n)
  \/ \E f \in FieldIds, off \in 0..(PacketLen - 1), len \in 1..PacketLen :
       BindFieldAt(f, off, len)

BindSpec == Init /\ [][BindNext]_vars

TableSpec == Init /\ [][TableNext]_vars

SysSpec == Init /\ [][SysNext]_vars

LockedQSpec == Init /\ [][LockedQNext]_vars

LockingQSpec == Init /\ [][LockingQNext]_vars

DropSpec == Init /\ [][DropNext]_vars

\* No operation of the core yields or suspends: the driver's worker runs
\* each packet to completion.
FairDropSpec == DropSpec /\ WF_vars(DropNext)

PortSpec == Init /\ [][PortNext]_vars

SqSpec == Init /\ [][SqNext]_vars

\* ---------------------------------------------------------------------
\* Claims about the Pool, checked under PoolSpec.

\* C1: every index of the pool is in exactly one place: once in the free
\* heap, or held by one caller; never in both, in neither, or in the heap
\* more than once.
PoolPartition == \A i \in Ids : FreeCount(i) + HeldCount(i) = 1

\* C2: whenever the free set is non-empty, the pop step of alloc() removes
\* exactly one occurrence of the index it read, that index is the minimum of
\* the free set at that moment, and the caller becomes its holder.
AllocReturnsMin ==
  [][\A w \in Workers :
       (pc[w] = "a_top" /\ pc'[w] = "a_popped" /\ heap_.c # <<>>) =>
         /\ id[w] = SetMin(FreeSet)
         /\ Len(heap_'.c) = Len(heap_.c) - 1
         /\ \A i \in Ids :
              Cardinality({p \in 1..Len(heap_'.c) : heap_'.c[p] = i})
                = FreeCount(i) - (IF i = id[w] THEN 1 ELSE 0)
         /\ held'[w][id[w]] = held[w][id[w]] + 1]_vars

\* C2 witness: a worker has just been handed index 0 again while the other
\* indices are split between the free heap and another worker, so index 0
\* was reinserted by a dealloc below the indices that were free.
AllocReturnsMinWitness ==
  \E w \in Workers, v \in Workers :
    /\ w # v
    /\ pc[w] = "a_popped" /\ id[w] = 0 /\ ~emptyAlloc[w]
    /\ held[v][1] = 1
    /\ heap_.c # <<>>
    /\ \A i \in Ids : FreeCount(i) + HeldCount(i) = 1

\* C3: an alloc() that meets an empty free set fails with PoolExhausted: it
\* goes on to hand no index to its caller, and the allocated set stays as
\* it was.
PoolExhaustion ==
  \A w \in Workers : emptyAlloc[w] => pc[w] # "a_popped"

\* C4: the heap steps run only while the caller holds the pool mutex, and no
\* buffer index is held by two callers (or twice) at the same time.
PoolIsolation ==
  /\ \A w \in Workers : pc[w] # "idle" => mutex_ = w
  /\ \A i \in Ids : HeldCount(i) <= 1

\* C5: at most PoolSize buffers are in flight, and the free indices and the
\* allocated indices add up to PoolSize.
PoolBound ==
  /\ TotalHeld <= PoolSize
  /\ Len(heap_.c) + TotalHeld = PoolSize

\* ---------------------------------------------------------------------
\* Claims about fp_goto_table and fp_gather, checked under GotoSpec.

\* Every field id the call lists is bound.
AllListedBound == \A p \in 1..Len(call.args) : cxt.fields[call.args[p]].bound

RECURSIVE SumLengths(_)
SumLengths(args) ==
  IF args = <<>> THEN 0
  ELSE cxt.fields[Head(args)].length + SumLengths(Tail(args))

\* The listed fields' bytes from packet memory, in argument order.
RECURSIVE ConcatFields(_)
ConcatFields(args) ==
  IF args = <<>> THEN <<>>
  ELSE LET b == cxt.fields[Head(args)]
       IN get_field(cxt, b.offset, b.length) \o ConcatFields(Tail(args))

\* C6: with all listed fields bound, the gather reads the n listed field ids
\* and no more, never runs off its buffer, and the call then performs one
\* find and one instr_fn invocation.
GotoTableCompletes ==
  (call.pc # "idle" /\ AllListedBound) =>
    /\ ~call.overread
    /\ call.pc # "overrun" /\ ~call.smashed
    /\ call.pc = "done" => (call.va = <<>> /\ call.finds = 1 /\ call.instrs = 1)

\* C7: once the n listed field ids (all bound, their lengths totalling
\* key_width) have been read, the gather returns, and the key it returns is
\* the key_width-byte concatenation of the fields' bytes in argument order.
GatherKeyIsConcat ==
  [][(/\ call.pc = "gather" /\ call.va = <<>> /\ ~call.overread
      /\ AllListedBound /\ SumLengths(call.args) = call.key_width) =>
       (/\ call'.pc = "find"
        /\ Len(call'.key) = tbl.key_size
        /\ call'.key = ConcatFields(call.args))]_vars

\* C8: a gather whose listed lengths do not total key_width, or that lists an
\* unbound field, produces no key, so no find and no instr_fn follow it; and
\* the gather writes no byte beyond its key buffer.
GatherErrors ==
  /\ call.pc \in {"find", "instr", "done"} =>
       (AllListedBound /\ SumLengths(call.args) = call.key_width)
  /\ call.pc # "overrun" /\ ~call.smashed

\* ---------------------------------------------------------------------
\* Claims about fp_apply / fp_write / fp_clear, checked under CxtSpec.

\* The context state an egress leaves, as the claims compare it.
Observable(c) ==
  <<c.data, c.metadata, c.output_port, c.queue, c.group, c.dropped>>

\* apply(a1); ...; apply(ak) on context c.
RECURSIVE ApplySeq(_, _)
ApplySeq(c, as) ==
  IF as = <<>> THEN c
  ELSE apply_action(ApplySeq(c, SubSeq(as, 1, Len(as) - 1)), as[Len(as)])

\* The context has left: by the egress at the end of the pipeline, by
\* fp_output_port or by fp_flood.
Egressed(ph) == ph \in {"sent", "output", "flood"}

\* C9: writing a1..ak and then egressing (at the end of the pipeline or by a
\* send on a port) leaves the context (packet bytes, metadata, output_port,
\* queue, group, dropped) as applying a1; ...; ak in that order to the
\* context the earlier applies produced does; and a write itself changes
\* none of these.
WriteThenApply ==
  [][/\ (phase = "proc" /\ Egressed(phase')) =>
          Observable(cxt') = Observable(ApplySeq(cxt, written))
     /\ (phase = "proc" /\ phase' = "proc" /\ Len(written') > Len(written)) =>
          Observable(cxt') = Observable(cxt)]_vars

\* C9 witness: X := 1 and then copy X to metadata[0] were written, and the
\* egress executed them in that order.
WriteThenApplyWitness ==
  /\ phase = "sent"
  /\ written = << Set_field_action(Field(Packet_memory, 0, 1), <<1>>),
                  Copy_field_action(Field(Packet_memory, 0, 1), 0) >>
  /\ cxt.data[1] = 1 /\ cxt.metadata[1] = 1

\* C10: a clear empties the action list and changes nothing else of the
\* context; after a clear every egress executes exactly the actions written
\* since, none of those written before it, and the egress at the end of the
\* pipeline transmits on the port they set.
ClearFrame ==
  [][/\ (phase = "proc" /\ phase' = "proc" /\ written # <<>> /\ written' = <<>>) =>
          (cxt'.action_list = <<>> /\ cxt' = [cxt EXCEPT !.action_list = <<>>])
     /\ (phase = "proc" /\ Egressed(phase') /\ cleared) =>
          Observable(cxt') = Observable(ApplySeq(cxt, written))
     /\ (phase = "proc" /\ phase' = "sent" /\ cleared) =>
          egress_port' = IF ApplySeq(cxt, written).dropped THEN NoPort
                         ELSE ApplySeq(cxt, written).output_port]_vars

\* C10 witness (scenario S4): X was set by apply, a written SetField(Y) was
\* discarded by clear, Output(7) was written after it; after egress X = 1,
\* Y is still 0 and the packet left on port 7.
ClearFrameWitness ==
  /\ phase = "sent" /\ cleared
  /\ written = << Output_action(7) >>
  /\ cxt.data = <<1, 0>>
  /\ egress_port = 7

\* ---------------------------------------------------------------------
\* Claims about fp_advance_header / fp_bind_field, checked under BindSpec.

\* C11: after a bind_field(ctx, id, rel_off, len) made while the cursor was
\* c, the view the call returned starts at packet byte c + rel_off and shows
\* the packet's bytes from there on; and when the bind lies inside the packet
\* (the binds C12's bounds check lets through), get_field_binding(id) is
\* (c + rel_off, len), replacing any earlier binding of id, and stays so
\* while the cursor advances.
BindRoundTrip ==
  bind_req.set =>
    /\ bind_req.view.start = bind_req.c + bind_req.off
    /\ bind_req.view.bytes =
         SubSeq(cxt.data, bind_req.c + bind_req.off + 1, Len(cxt.data))
    /\ bind_req.c + bind_req.off + bind_req.len <= Len(cxt.data) =>
         get_field_binding(cxt, bind_req.f) =
           [bound |-> TRUE, offset |-> bind_req.c + bind_req.off,
            length |-> bind_req.len]

\* C11 witness: a field bound at a cursor past 0 replaced its earlier
\* binding, the call returned a view of the packet's last byte, and the
\* cursor has advanced since.
BindRoundTripWitness ==
  /\ bind_req.set /\ bind_req.replaced
  /\ bind_req.c > 0
  /\ cxt.offset > bind_req.c
  /\ cxt.fields[bind_req.f].offset = bind_req.c + bind_req.off
  /\ bind_req.view.start = bind_req.c
  /\ bind_req.view.bytes = <<cxt.data[bind_req.c + 1]>>
  /\ cxt.data[1] # cxt.data[bind_req.c + 1]

\* C12: every recorded field binding lies inside the packet, and a bind that
\* would reach past the packet's end records nothing.
BindingsInBounds ==
  /\ [](\A f \in FieldIds :
         cxt.fields[f].bound =>
           cxt.fields[f].offset + cxt.fields[f].length <= Len(cxt.data))
  /\ [][(bind_req' # bind_req /\ bind_req'.set
         /\ bind_req'.c + bind_req'.off + bind_req'.len > Len(cxt.data)) =>
          cxt'.fields = cxt.fields]_vars

\* C12 witness: after an advance, a bind reaching past the packet's end was
\* asked for and the field it named has no binding.
BindingsInBoundsWitness ==
  /\ bind_req.set /\ bind_req.c > 0
  /\ bind_req.c + bind_req.off + bind_req.len > Len(cxt.data)
  /\ ~cxt.fields[bind_req.f].bound
  /\ \E f \in FieldIds : cxt.fields[f].bound

\* ---------------------------------------------------------------------
\* Claims about table configuration and lookup, checked under TableSpec.

\* C13: fp_create_table for EXACT, PREFIX or WILDCARD returns a valid table
\* that has been appended to the data plane's table list; for any other type
\* it throws and the list is unchanged.
CreateTableRegisters ==
  created.called =>
    IF created.type \in TableTypes
    THEN /\ ~created.threw /\ created.valid /\ htbl.valid
         /\ Len(tables) = Len(created.before) + 1
         /\ SubSeq(tables, 1, Len(created.before)) = created.before
    ELSE created.threw /\ tables = created.before

\* C14: the find made by fp_goto_table on a table obtained from
\* fp_create_table resolves a flow for every key: the installed flow when
\* the key is present, else the miss flow, which is the Drop-all default
\* unless fp_add_miss replaced it; a handler is always there to invoke.
LookupTotal ==
  lookup.called =>
    /\ lookup.result \in {"flow", "miss"}
    /\ lookup.handler \in {"app", "drop"}
    /\ (lookup.result = "flow") = (lookup.key \in lookup.tbl.flows)
    /\ (lookup.result = "miss" /\ lookup.tbl.miss = "drop") =>
         lookup.handler = "drop"

\* ---------------------------------------------------------------------
\* Claims about the system registries, checked under SysSpec.

\* C15: create_dataplane of a name already in the table throws and leaves
\* the table unchanged; of a fresh name it inserts exactly one entry and
\* returns it; delete_dataplane of an absent name throws and leaves the
\* table unchanged; no name ever has two entries.
RegistryUnique ==
  /\ \A e1, e2 \in dataplane_table : e1[1] = e2[1] => e1 = e2
  /\ sys_last.op = "create_dataplane" =>
       IF map_find(sys_last.before, sys_last.arg)
       THEN sys_last.threw /\ dataplane_table = sys_last.before
       ELSE /\ ~sys_last.threw
            /\ sys_last.ret # NoObj
            /\ <<sys_last.arg, sys_last.ret>> \notin sys_last.before
            /\ dataplane_table =
                 sys_last.before \cup {<<sys_last.arg, sys_last.ret>>}
  /\ (sys_last.op = "delete_dataplane"
      /\ ~map_find(sys_last.before, sys_last.arg)) =>
       sys_last.threw /\ dataplane_table = sys_last.before

\* C15 witness: with two data planes registered, a create_dataplane of a
\* name in use was refused.
RegistryUniqueWitness ==
  /\ sys_last.op = "create_dataplane" /\ sys_last.threw
  /\ Cardinality(dataplane_table) = 2

\* C16: unload_application of a loaded path removes its entry without
\* throwing; of a path not loaded it throws and leaves the module table
\* unchanged.
UnloadRemoves ==
  sys_last.op = "unload_application" =>
    IF map_find(sys_last.before, sys_last.arg)
    THEN ~sys_last.threw
         /\ module_table = map_erase(sys_last.before, sys_last.arg)
    ELSE sys_last.threw /\ module_table = sys_last.before

\* ---------------------------------------------------------------------
\* Claims about the locked queues.

\* A thread that holds the queue's lock with its push or its pop pending.
Mutating(t) == qpc[t] \in {"e_locked", "d_pop", "d_store"}

\* C19: under LockedQSpec at most one thread at a time is modifying the
\* Locked_queue, no element is returned by two dequeues, and no dequeue
\* reads front or pops on an empty queue.
LockedQExclusive ==
  /\ Cardinality({t \in Workers : Mutating(t)}) <= 1
  /\ \A e \in Elems : delivered[e] <= 1
  /\ ~qub

\* C20: under LockingQSpec a dequeue whose non-emptiness check passed finds
\* an element when it holds the lock: no thread reads front or pops on an
\* empty Locking_queue and no element is returned twice.
LockingQAtomic ==
  /\ \A t \in Workers :
       qpc[t] \in {"d_front", "d_pop", "d_store"} /\ ~qub => queue_.c # <<>>
  /\ \A e \in Elems : delivered[e] <= 1
  /\ ~qub

\* ---------------------------------------------------------------------
\* Claims about the packets counters and the buffer of a dropped packet.

\* The sum of all packets counters of the table.
TotalPackets == packets.miss + SumOver(packets.flows, FlowKeys)

\* C17: under GotoSpec a fp_goto_table dispatch whose listed fields are all
\* bound and total key_width bytes has, once it ended, incremented the
\* packets counter of exactly one flow (the one it resolved) by 1.
DispatchCounts ==
  (/\ call.pc \in {"done", "UnboundField", "overrun"}
   /\ AllListedBound /\ SumLengths(call.args) = call.key_width) =>
    /\ TotalPackets = 1
    /\ call.flow = "miss" => packets.miss = 1
    /\ call.flow = "flow" => packets.flows[call.key] = 1

\* C18: under FairDropSpec the buffer allocated for a packet is eventually
\* back in the free set once the packet has been dropped, and the free set
\* is then the whole pool again.
DropReleases ==
  (phase = "dropped" /\ cxt.dropped) ~> (TotalHeld = 0 /\ FreeSet = Ids)

\* C18 witness: a packet dropped by the table's Drop-all miss flow has been
\* sent on the drop port and its buffer is back: the free set is the pool.
DropReleasesWitness ==
  /\ phase = "sent" /\ cxt.dropped
  /\ packets.miss = 1
  /\ TotalHeld = 0 /\ FreeSet = Ids
  /\ \A p \in 1..Len(heap_.c) : FreeCount(heap_.c[p]) = 1

\* ---------------------------------------------------------------------
\* Claims about Port_tcp, checked under PortSpec.

\* C21: a Port_tcp starts with link_down = TRUE; after any attach/detach
\* sequence link_down is FALSE exactly when the last call on the port was
\* attach, and then the port holds a connected socket; a port that was never
\* attached or was detached last holds none, the socket having been handed
\* to the caller.
PortLinkState ==
  \A p \in PortIds :
    /\ ports[p].link_down = (ports[p].last # "attach")
    /\ (ports[p].sock_ # NoFd) = (ports[p].last = "attach")
    /\ ports[p].sock_ \notin socks

\* C21 witness: one port was attached and then detached, handing its socket
\* out, while another port is attached and up.
PortLinkStateWitness ==
  /\ handed # NoFd /\ handed \in socks
  /\ \E p, q \in PortIds :
       /\ ports[p].last = "detach" /\ ports[p].link_down
       /\ ports[q].last = "attach" /\ ~ports[q].link_down

\* ---------------------------------------------------------------------
\* Claims about the queues in single-threaded use, checked under SqSpec.

\* C22: for a Queue, a Locked_queue and a Locking_queue, after any sequence
\* of enqueue and dequeue calls empty() is TRUE exactly when size() is 0.
EmptyAgreesWithSize ==
  (sq.kind \in QueueKinds /\ ~sq.ub) => (empty(sq) = (size(sq.queue_) = 0))

\* C23: in single-threaded use of a Queue or a Locked_queue the values the
\* dequeues returned, followed by what is still queued, are the enqueued
\* values in their order; a Locked_queue::dequeue returns FALSE exactly on
\* an empty queue and then leaves the queue and the caller's v as they were.
QueueFifo ==
  (sq.kind \in {"Queue", "Locked_queue"} /\ ~sq.ub) =>
    /\ sq.in = sq.out \o sq.queue_.c
    /\ sq.last.called =>
         /\ sq.last.ret = (sq.last.q_before.c # <<>>)
         /\ ~sq.last.ret =>
              /\ sq.last.q_after = sq.last.q_before
              /\ sq.last.v_after = sq.last.v_before

\* C23 witness: a Locked_queue returned two different values in the order
\* they were enqueued, and a further dequeue on the empty queue returned
\* FALSE with the caller's v, an enqueued value, still in place.
QueueFifoWitness ==
  /\ sq.kind = "Locked_queue"
  /\ Len(sq.out) = 2 /\ sq.out[1] # sq.out[2] /\ sq.out = sq.in
  /\ sq.last.called /\ ~sq.last.ret /\ sq.last.v_before # Garbage

====
